---- MODULE Spec2Model ----
(***************************************************************************)
(* Chapter word-count ingestion of the eCFR repository                     *)
(* (src/ingestion-script/local_title.py): the per-title loop of main(),    *)
(* the fetch, the chapter extraction over the parsed XML tree, the text    *)
(* normalisation and statistics, and the PostgreSQL sink.                  *)
(*                                                                         *)
(* Python strings are sequences of one-character strings, so that len(),   *)
(* strip(), split(), "in" and the regular expressions are computed.        *)
(* A value that may be None is None (the empty tuple) or Some(v) = <<v>>.  *)
(***************************************************************************)
EXTENDS Integers, Sequences, FiniteSets, TLC

None == <<>>
Some(v) == <<v>>
Val(o) == o[1]

\* Python truthiness of an Optional[str]: None and "" are false.
Truthy(o) == o # None /\ Val(o) # <<>>

\* ------------------------------------------------------------------ text

\* The characters str.strip(), str.split() and the regex class \s take as
\* white space (those of them the documents here use).
Whitespace == {" ", "\t", "\n", "\r"}

Positions(s) == [i \in 1..Len(s) |-> i]

Least(S) == CHOOSE i \in S : \A j \in S : i <= j

\* str.strip(): without the white space at either end.
Strip(s) ==
    LET inked == {i \in 1..Len(s) : s[i] \notin Whitespace}
    IN  IF inked = {} THEN <<>>
        ELSE SubSeq(s, Least(inked), CHOOSE i \in inked : \A j \in inked : j <= i)

\* Where the pattern <[^>]+> matches in s: at a "<" followed by at least one
\* character other than ">" and, later, by a ">".
TagMatchesAt(s, i) ==
    /\ s[i] = "<"
    /\ i + 1 <= Len(s)
    /\ s[i + 1] # ">"
    /\ \E j \in (i + 2)..Len(s) : s[j] = ">"

\* re.sub(r"<[^>]+>", " ", s) from position i on: the leftmost match from i
\* on, which runs to the first ">" after its second character, becomes one
\* space, and the scan goes on behind it.
RECURSIVE SubTags(_, _)
SubTags(s, i) ==
    LET starts == {k \in i..Len(s) : TagMatchesAt(s, k)}
    IN  IF starts = {} THEN SubSeq(s, i, Len(s))
        ELSE LET k == Least(starts)
                 j == Least({m \in (k + 2)..Len(s) : s[m] = ">"})
             IN  SubSeq(s, i, k - 1) \o <<" ">> \o SubTags(s, j + 1)

\* re.sub(r"\s+", " ", s): every maximal run of white space becomes one
\* space (the run's first character is kept, as a space).
SubSpaces(s) ==
    LET kept == SelectSeq(Positions(s),
                          LAMBDA i : \/ s[i] \notin Whitespace
                                     \/ i = 1
                                     \/ s[i - 1] \notin Whitespace)
    IN  [k \in 1..Len(kept) |->
            IF s[kept[k]] \in Whitespace THEN " " ELSE s[kept[k]]]

clean_text(xml_content) ==
    LET text == SubTags(xml_content, 1)
    IN  Strip(SubSpaces(text))

\* str.split(): the maximal runs of characters that are not white space.
Split(s) ==
    LET starts == SelectSeq(Positions(s),
                            LAMBDA i : /\ s[i] \notin Whitespace
                                       /\ i = 1 \/ s[i - 1] \in Whitespace)
        EndOf(i) == Least({j \in i..Len(s) :
                              j = Len(s) \/ s[j + 1] \in Whitespace})
    IN  [k \in 1..Len(starts) |-> SubSeq(s, starts[k], EndOf(starts[k]))]

\* Mutant of word_count: the separators are counted, not the tokens.
word_count_spaces(text) ==
    Len(SelectSeq(text, LAMBDA c : c \in Whitespace))

word_count(text) ==
    IF text = <<>> THEN 0 ELSE Len(Split(text))

\* The letters, for the comparison that ignores case.
UpperCase ==
    <<"A", "B", "C", "D", "E", "F", "G", "H", "I", "J", "K", "L", "M",
       "N", "O", "P", "Q", "R", "S", "T", "U", "V", "W", "X", "Y", "Z">>
LowerCase ==
    <<"a", "b", "c", "d", "e", "f", "g", "h", "i", "j", "k", "l", "m",
       "n", "o", "p", "q", "r", "s", "t", "u", "v", "w", "x", "y", "z">>
Fold(str) ==
    [i \in 1..Len(str) |->
        IF \E k \in 1..Len(UpperCase) : UpperCase[k] = str[i]
        THEN LowerCase[CHOOSE k \in 1..Len(UpperCase) : UpperCase[k] = str[i]]
        ELSE str[i]]

\* Mutant of Contains: the search ignores case.
ContainsIgnoringCase(s, sub) ==
    \E i \in 1..(Len(s) - Len(sub) + 1) :
        SubSeq(Fold(s), i, i + Len(sub) - 1) = Fold(sub)

\* Python's "sub in s" on strings.
Contains(s, sub) ==
    \E i \in 1..(Len(s) - Len(sub) + 1) : SubSeq(s, i, i + Len(sub) - 1) = sub

\* str.endswith
EndsWith(s, suf) ==
    Len(s) >= Len(suf) /\ SubSeq(s, Len(s) - Len(suf) + 1, Len(s)) = suf

\* ------------------------------------------------------------ documents

\* String literals of the source and of the documents.
S_DIV1 == <<"D", "I", "V", "1">>
S_DIV2 == <<"D", "I", "V", "2">>
S_DIV3 == <<"D", "I", "V", "3">>
S_XDIV3 == <<"{", "x", "}", "D", "I", "V", "3">>
S_HEAD == <<"H", "E", "A", "D">>
S_ECFR == <<"E", "C", "F", "R">>
S_P == <<"P">>
S_I == <<"I">>
S_TITLE == <<"T", "I", "T", "L", "E">>
S_CHAPTER == <<"C", "H", "A", "P", "T", "E", "R">>
S_PART == <<"P", "A", "R", "T">>
S_Reserved == <<"[", "R", "e", "s", "e", "r", "v", "e", "d", "]">>
S_RomanI == <<"I">>
S_RomanII == <<"I", "I">>
S_HeadGeneral == <<"C", "h", "a", "p", "t", "e", "r", " ", "I", " ", "-", " ", "G", "e", "n", "e", "r", "a", "l">>
S_HeadReserved == <<"C", "h", "a", "p", "t", "e", "r", " ", "I", "I", " ", "-", " ", "[", "R", "e", "s", "e", "r", "v", "e", "d", "]">>
S_HeadPadded == <<" ", " ", "[", "r", "e", "s", "e", "r", "v", "e", "d", "]", " ", "\n">>
S_Blank == <<" ", " ">>
S_Newline == <<"\n">>
S_BodyText == <<"T", "h", "i", "s", " ", "p", "a", "r", "t", " ", "a", "p", "p", "l", "i", "e", "s", ".">>
S_One == <<"a", " ", "<", "b">>
S_Two == <<"c", "\t", "d">>
S_Three == <<"e", ">", "f">>
S_Four == <<" ", "g", " ", " ", "h", "\n">>

\* An element of the parsed tree (xml.etree.ElementTree.Element): its tag, its
\* attributes (a function from the attribute names present), its text and
\* tail (None when the document has none there) and its parent.  A document's
\* elements are numbered in document order, the root is element 1 and its
\* parent is 0.
Elem(tag, attrib, text, tail, parent) ==
    [tag |-> tag, attrib |-> attrib, text |-> text, tail |-> tail,
     parent |-> parent]

\* The text of a HEAD element of each kind; "notext" is <HEAD/>.
HeadText(h) ==
    CASE h = "notext" -> None
      [] h = "blank" -> Some(S_Blank)
      [] h = "general" -> Some(S_HeadGeneral)
      [] h = "reserved" -> Some(S_HeadReserved)
      [] h = "padded" -> Some(S_HeadPadded)

\* The elements of one chapter-like division of kind k, placed at position
\* `at` under the element `par`: the division, its HEAD child (unless
\* absent) and its body.
ChapterNodes(k, par, at) ==
    LET div == Elem(k.tag, k.attrib, k.text, None, par)
        head == IF k.head = "absent" THEN <<>>
                ELSE <<Elem(S_HEAD, <<>>, HeadText(k.head), Some(S_Newline), at)>>
        b == at + Len(head) + 1
        body == CASE k.body = "none" -> <<>>
                  [] k.body = "para" ->
                       <<Elem(S_P, <<>>, Some(S_BodyText), Some(S_Newline), at)>>
                  [] k.body = "mixed" ->
                       <<Elem(S_P, <<>>, Some(S_One), Some(S_Four), at),
                         Elem(S_I, <<>>, Some(S_Two), Some(S_Three), b),
                         Elem(S_I, <<>>, None, None, b)>>
    IN  <<div>> \o head \o body

\* The kinds of division the documents are built from.
KindGeneral ==
    [tag |-> S_DIV3, attrib |-> [TYPE |-> S_CHAPTER, N |-> S_RomanI],
     text |-> Some(S_Newline), head |-> "general", body |-> "para"]
KindReserved ==
    [tag |-> S_DIV3, attrib |-> [TYPE |-> S_CHAPTER, N |-> S_RomanII],
     text |-> Some(S_Newline), head |-> "reserved", body |-> "none"]
KindNoHead ==
    [tag |-> S_DIV3, attrib |-> [TYPE |-> S_CHAPTER, N |-> S_RomanI],
     text |-> None, head |-> "absent", body |-> "para"]
KindEmptyHead ==
    [tag |-> S_DIV3, attrib |-> [TYPE |-> S_CHAPTER, N |-> S_RomanII],
     text |-> None, head |-> "notext", body |-> "para"]
KindBlankHead ==
    [tag |-> S_XDIV3, attrib |-> [TYPE |-> S_CHAPTER],
     text |-> Some(S_Three), head |-> "blank", body |-> "mixed"]
KindPadded ==
    [tag |-> S_DIV3, attrib |-> [TYPE |-> S_CHAPTER, N |-> S_RomanI],
     text |-> None, head |-> "padded", body |-> "mixed"]
KindPart ==
    [tag |-> S_DIV3, attrib |-> [TYPE |-> S_PART, N |-> S_RomanI],
     text |-> None, head |-> "general", body |-> "para"]
KindSubtitle ==
    [tag |-> S_DIV2, attrib |-> [TYPE |-> S_CHAPTER, N |-> S_RomanII],
     text |-> None, head |-> "reserved", body |-> "none"]

ChapterKinds ==
    {KindGeneral, KindReserved, KindNoHead, KindEmptyHead, KindBlankHead,
     KindPadded, KindPart, KindSubtitle}

\* The elements above the chapters, and the element the chapters hang under.
RootNodes(r) ==
    CASE r = "wrapped" ->
           <<Elem(S_ECFR, <<>>, None, None, 0),
             Elem(S_DIV1, [TYPE |-> S_TITLE, N |-> S_RomanI], None, None, 1)>>
      [] r = "deep" ->
           <<Elem(S_ECFR, <<>>, None, None, 0),
             Elem(S_DIV1, [TYPE |-> S_TITLE, N |-> S_RomanI], None, None, 1),
             Elem(S_DIV2, [TYPE |-> S_PART], Some(S_One), None, 2)>>
      [] r = "rootIsTitle" ->
           <<Elem(S_DIV1, [TYPE |-> S_TITLE, N |-> S_RomanI], None, None, 0)>>
      [] r = "noTitle" ->
           <<Elem(S_ECFR, <<>>, None, None, 0),
             Elem(S_DIV1, [TYPE |-> S_PART], None, None, 1)>>

RootKinds == {"wrapped", "deep", "rootIsTitle", "noTitle"}

\* The divisions cs (each a kind and whether it is nested in the division
\* before it) appended in document order to `nodes`; `top` is the element
\* the unnested ones hang under, `prev` the division before (0: none).
RECURSIVE AddDivisions(_, _, _, _, _)
AddDivisions(nodes, cs, j, top, prev) ==
    IF j > Len(cs) THEN nodes
    ELSE LET at == Len(nodes) + 1
             par == IF cs[j].nested /\ prev # 0 THEN prev ELSE top
         IN  AddDivisions(nodes \o ChapterNodes(cs[j].kind, par, at),
                          cs, j + 1, top, at)

\* A title document as the fetch returns it: malformed markup, or markup
\* that parses to the tree `nodes`.
Document(r, cs) ==
    [wellformed |-> TRUE,
     nodes |-> AddDivisions(RootNodes(r), cs, 1, Len(RootNodes(r)), 0)]

Malformed == [wellformed |-> FALSE, nodes |-> <<>>]

\* ----------------------------------------------------------- extraction

\* Element.attrib.get(key, default)
AttribGet(attrib, key, default) ==
    IF key \in DOMAIN attrib THEN attrib[key] ELSE default

\* Whether element i lies in the subtree of element a (a itself included).
RECURSIVE InSubtree(_, _, _)
InSubtree(nodes, a, i) ==
    IF i = a THEN TRUE
    ELSE IF i <= a THEN FALSE
    ELSE InSubtree(nodes, a, nodes[i].parent)

\* Element.iter(): the element and its descendants, in document order.
Iter(nodes, e) == SelectSeq(Positions(nodes), LAMBDA i : InSubtree(nodes, e, i))

\* Iterating an element: its direct children, in document order.
Children(nodes, e) == SelectSeq(Positions(nodes), LAMBDA i : nodes[i].parent = e)

\* Mutant of FindTitle: the root itself is searched too.
FindTitleOrSelf(nodes) ==
    LET hits == {i \in 1..Len(nodes) :
                    /\ nodes[i].tag = S_DIV1
                    /\ AttribGet(nodes[i].attrib, "TYPE", None) = S_TITLE}
    IN  IF hits = {} THEN 0 ELSE Least(hits)

\* root.find('.//DIV1[@TYPE="TITLE"]'): the first element below the root,
\* in document order, with that tag and attribute; 0 stands for None.
FindTitle(nodes) ==
    LET hits == {i \in 2..Len(nodes) :
                    /\ nodes[i].tag = S_DIV1
                    /\ AttribGet(nodes[i].attrib, "TYPE", None) = S_TITLE}
    IN  IF hits = {} THEN 0 ELSE Least(hits)

\* chapter.find("HEAD"): the first direct child tagged HEAD; 0 for None.
FindHead(nodes, e) ==
    LET hits == {i \in 1..Len(nodes) :
                    nodes[i].parent = e /\ nodes[i].tag = S_HEAD}
    IN  IF hits = {} THEN 0 ELSE Least(hits)

\* The test of the loop over title_elem.iter().
IsChapter(el) ==
    /\ EndsWith(el.tag, S_DIV3)
    /\ AttribGet(el.attrib, "TYPE", None) = S_CHAPTER

\* Mutant of ChapterElements: of the elements with the same N attribute only
\* the first is kept.
ChapterElementsDistinct(nodes, title_elem) ==
    LET Label(i) == AttribGet(nodes[i].attrib, "N", <<>>)
    IN  SelectSeq(Iter(nodes, title_elem),
                  LAMBDA i : /\ IsChapter(nodes[i])
                             /\ ~\E j \in 1..(i - 1) :
                                   /\ InSubtree(nodes, title_elem, j)
                                   /\ IsChapter(nodes[j])
                                   /\ Label(j) = Label(i))

\* The elements the loop yields a triple for, in the order it meets them.
ChapterElements(nodes, title_elem) ==
    SelectSeq(Iter(nodes, title_elem), LAMBDA i : IsChapter(nodes[i]))

\* extract_text(element); ChildrenText is its loop over the children cs
\* from the k-th on.
RECURSIVE extract_text(_, _)
RECURSIVE ChildrenText(_, _, _)
extract_text(nodes, element) ==
    LET text == IF Truthy(nodes[element].text)
                THEN Val(nodes[element].text) \o <<" ">> ELSE <<>>
    IN  text \o ChildrenText(nodes, Children(nodes, element), 1)

ChildrenText(nodes, cs, k) ==
    IF k > Len(cs) THEN <<>>
    ELSE extract_text(nodes, cs[k])
         \o (IF Truthy(nodes[cs[k]].tail)
             THEN Val(nodes[cs[k]].tail) \o <<" ">> ELSE <<>>)
         \o ChildrenText(nodes, cs, k + 1)

\* heading_el.text.strip() raises AttributeError when the HEAD child is
\* there and its text is None.
HeadingRaises(nodes, chapter) ==
    LET heading_el == FindHead(nodes, chapter)
    IN  heading_el # 0 /\ nodes[heading_el].text = None

\* Mutant of chapter_heading_of: without a HEAD the label is the heading.
chapter_heading_or_label(nodes, chapter) ==
    LET heading_el == FindHead(nodes, chapter)
    IN  IF heading_el # 0 THEN Strip(Val(nodes[heading_el].text))
        ELSE AttribGet(nodes[chapter].attrib, "N", <<>>)

\* chapter_heading = heading_el.text.strip() if heading_el is not None
\* else ""
chapter_heading_of(nodes, chapter) ==
    LET heading_el == FindHead(nodes, chapter)
    IN  IF heading_el # 0 THEN Strip(Val(nodes[heading_el].text)) ELSE <<>>

\* The triple yielded for one chapter element.
ChapterTriple(nodes, chapter) ==
    LET chapter_text == extract_text(nodes, chapter)
        plain_text == clean_text(chapter_text)
    IN  [chapter_label |-> AttribGet(nodes[chapter].attrib, "N", <<>>),
         chapter_heading |-> chapter_heading_of(nodes, chapter),
         wc |-> word_count(plain_text)]

\* Mutant of parse_chapters_for_wordcount: a document without a title
\* division is an error.
parse_requiring_title(xml_text) ==
    LET Failed == [raised |-> TRUE, elements |-> <<>>, chapters |-> <<>>]
    IN
    IF ~xml_text.wellformed THEN Failed
    ELSE LET nodes == xml_text.nodes
             title_elem == FindTitle(nodes)
         IN  IF title_elem = 0
             THEN Failed
             ELSE LET els == ChapterElements(nodes, title_elem)
                  IN  IF \E k \in 1..Len(els) : HeadingRaises(nodes, els[k])
                      THEN Failed
                      ELSE [raised |-> FALSE,
                            elements |-> els,
                            chapters |-> [k \in 1..Len(els) |->
                                            ChapterTriple(nodes, els[k])]]

\* list(parse_chapters_for_wordcount(xml_text)): the list of triples (and
\* the elements they were yielded for), or an exception (ET.ParseError on
\* malformed markup, AttributeError on a HEAD without text), which loses
\* the triples yielded before it.
parse_chapters_for_wordcount(xml_text) ==
    LET Failed == [raised |-> TRUE, elements |-> <<>>, chapters |-> <<>>]
    IN
    IF ~xml_text.wellformed THEN Failed
    ELSE LET nodes == xml_text.nodes
             title_elem == FindTitle(nodes)
         IN  IF title_elem = 0
             THEN [raised |-> FALSE, elements |-> <<>>, chapters |-> <<>>]
             ELSE LET els == ChapterElements(nodes, title_elem)
                  IN  IF \E k \in 1..Len(els) : HeadingRaises(nodes, els[k])
                      THEN Failed
                      ELSE [raised |-> FALSE,
                            elements |-> els,
                            chapters |-> [k \in 1..Len(els) |->
                                            ChapterTriple(nodes, els[k])]]

\* ------------------------------------------------------------- pipeline

\* TITLES = range(1, 51): the model sweeps FirstTitle..LastTitle.
FirstTitle == 1
LastTitle == 3
TITLES == FirstTitle..LastTitle

\* How many times main() is run against the same database.
MaxRuns == 2

\* The most chapter-like divisions in a generated document.
MaxDivisions == 2

\* What requests.get gives: a response with an HTTP status, or "timeout",
\* which is requests.get raising.
Responses == {"200", "404", "500", "timeout"}

VARIABLES
    pc,          \* where main() is
    run,         \* which run of main() this is; the database clock
    title,       \* the loop variable of main()
    upstream,    \* the document the upstream serves for each title
    xml_text,    \* main(): the fetched markup (None before the fetch)
    chapters,    \* main(): the materialised list of triples
    inserted,    \* insert_rows: rows executed so far
    conns,       \* the database's open connections: id -> its session
    table,       \* ecfr_chapter_wordcount: the committed rows, in order
    outcome,     \* what became of each title in this run
    fetched,     \* the titles fetch_title_xml was called for in this run
    yielded,     \* the elements the triples of `chapters` were yielded for
    commits,     \* per title, how many conn.commit() calls succeeded
    delays,      \* how many time.sleep(REQUEST_DELAY) calls this run has made
    extraction,  \* parse_chapters_for_wordcount on the snapshot's documents
    raw_text,    \* a text given to clean_text
    normal_text, \* what clean_text returned for raw_text (None before the call)
    counted,     \* what word_count returned for normal_text (None before)
    agencies,    \* the agencies table: its rows, in insertion order
    agencies_seq,\* the next value of the SERIAL id of the agencies table
    saved,       \* the slugs of the save_agency calls that returned
    titles       \* the titles table: title_number (its unique key) -> row

vars ==
    <<pc, run, title, upstream, xml_text, chapters, inserted, conns, table,
      outcome, fetched, yielded, commits, delays, extraction,
      raw_text, normal_text, counted, agencies, agencies_seq, saved,
      titles>>

\* The variables of the run of main().
pipeline ==
    <<pc, run, title, upstream, xml_text, chapters, inserted, conns, table,
      outcome, fetched, yielded, commits, delays, extraction>>

\* The variables of the calls of the text functions on their own.
textcalls == <<raw_text, normal_text, counted>>

\* The variables of the agency ingestion.
agencydb == <<agencies, agencies_seq, saved, titles>>

\* The connection insert_rows opens for the current title.
conn == <<run, title>>

\* A session of the database: the rows inserted and not yet committed, and
\* whether its cursor is open.
Session(pending, cursor) == [pending |-> pending, cursor |-> cursor]

Without(f, k) == [c \in DOMAIN f \ {k} |-> f[c]]

\* Mutant of Row: the character count takes in the words of the chapter's
\* text.
RowCountingText(title_number, t, now) ==
    [title |-> title_number,
     chapter_identifier |-> t.chapter_label,
     chapter_heading |-> t.chapter_heading,
     word_count |-> t.wc,
     character_count |-> Len(t.chapter_heading) + t.wc,
     is_reserved |-> IF t.chapter_heading # <<>>
                     THEN Contains(t.chapter_heading, S_Reserved) ELSE FALSE,
     downloaded_at |-> now]

\* The row one INSERT_SQL execution of insert_rows adds for a triple; the
\* SERIAL id is left out, downloaded_at is the database clock.
Row(title_number, t, now) ==
    LET chapter_heading == t.chapter_heading
        is_reserved == IF chapter_heading # <<>>
                       THEN Contains(chapter_heading, S_Reserved) ELSE FALSE
        char_count == IF chapter_heading # <<>>
                      THEN Len(chapter_heading) ELSE 0
    IN  [title |-> title_number,
         chapter_identifier |-> t.chapter_label,
         chapter_heading |-> chapter_heading,
         word_count |-> t.wc,
         character_count |-> char_count,
         is_reserved |-> is_reserved,
         downloaded_at |-> now]

\* The except clause of main(): the error is printed and the loop goes on
\* to the sleep.
Caught(what) ==
    /\ pc' = "sleep"
    /\ outcome' = [outcome EXCEPT ![title] = what]

\* setup_postgres(): CREATE TABLE IF NOT EXISTS, on a connection of its own.
Setup ==
    /\ pc = "setup"
    /\ pc' = "fetch"
    /\ UNCHANGED <<run, title, upstream, xml_text, chapters, inserted, conns,
                   table, outcome, fetched,
                   yielded, commits, delays, extraction,
                   textcalls, agencydb>>

\* setup_postgres() raises: it is outside the try, main() ends.
SetupFail ==
    /\ pc = "setup"
    /\ pc' = "aborted"
    /\ UNCHANGED <<run, title, upstream, xml_text, chapters, inserted, conns,
                   table, outcome, fetched,
                   yielded, commits, delays, extraction,
                   textcalls, agencydb>>

\* fetch_title_xml(title) with status 200.
FetchOk ==
    /\ pc = "fetch"
    /\ fetched' = Append(fetched, title)
    /\ xml_text' = Some(upstream[title])
    /\ pc' = "parse"
    /\ UNCHANGED <<run, title, upstream, chapters, inserted, conns, table,
                   outcome,
                   yielded, commits, delays, extraction,
                   textcalls, agencydb>>

\* Mutant of FetchFail: the exception of the fetch escapes the loop.
FetchFailAborts ==
    /\ pc = "fetch"
    /\ fetched' = Append(fetched, title)
    /\ outcome' = [outcome EXCEPT ![title] = "fetch_failed"]
    /\ pc' = "aborted"
    /\ UNCHANGED <<run, title, upstream, xml_text, chapters, inserted, conns,
                   table, yielded, commits, delays, extraction,
                   textcalls, agencydb>>

\* fetch_title_xml(title) raising: a status other than 200, or a timeout.
FetchFail ==
    /\ pc = "fetch"
    /\ \E resp \in Responses \ {"200"} :
          /\ fetched' = Append(fetched, title)
          /\ Caught("fetch_failed")
    /\ UNCHANGED <<run, title, upstream, xml_text, chapters, inserted, conns,
                   table,
                   yielded, commits, delays, extraction,
                   textcalls, agencydb>>

\* Mutant of Parse: an exception of the extraction escapes the loop.
ParseUncaught ==
    /\ pc = "parse"
    /\ LET r == extraction[Val(xml_text)]
       IN  IF r.raised
           THEN /\ pc' = "aborted"
                /\ outcome' = [outcome EXCEPT ![title] = "parse_failed"]
                /\ UNCHANGED <<chapters, yielded>>
           ELSE /\ chapters' = r.chapters
                /\ yielded' = r.elements
                /\ pc' = "connect"
                /\ UNCHANGED outcome
    /\ UNCHANGED <<run, title, upstream, xml_text, inserted, conns, table,
                   fetched, commits, delays, extraction,
                   textcalls, agencydb>>

\* Mutant of Parse: the generator is handed to insert_rows as it is, so
\* that the connection is opened before any of the document is extracted.
ParseLazily ==
    /\ pc = "parse"
    /\ chapters' = extraction[Val(xml_text)].chapters
    /\ yielded' = extraction[Val(xml_text)].elements
    /\ pc' = "connect"
    /\ UNCHANGED <<run, title, upstream, xml_text, inserted, conns, table,
                   outcome, fetched, commits, delays, extraction,
                   textcalls, agencydb>>

\* chapters = list(parse_chapters_for_wordcount(xml_text)).  The function
\* is pure: its value on each document of the snapshot is computed once, in
\* `extraction`, and looked up here.
Parse ==
    /\ pc = "parse"
    /\ LET r == extraction[Val(xml_text)]
       IN  IF r.raised
           THEN /\ Caught("parse_failed")
                /\ UNCHANGED <<chapters, yielded>>
           ELSE /\ chapters' = r.chapters
                /\ yielded' = r.elements
                /\ pc' = "connect"
                /\ UNCHANGED outcome
    /\ UNCHANGED <<run, title, upstream, xml_text, inserted, conns, table,
                   fetched, commits, delays, extraction,
                   textcalls, agencydb>>

\* insert_rows: psycopg2.connect and conn.cursor().
Connect ==
    /\ pc = "connect"
    /\ conns' = (conn :> Session(<<>>, TRUE)) @@ conns
    /\ inserted' = 0
    /\ pc' = "insert"
    /\ UNCHANGED <<run, title, upstream, xml_text, chapters, table, outcome,
                   fetched,
                   yielded, commits, delays, extraction,
                   textcalls, agencydb>>

\* insert_rows: psycopg2.connect raises.
ConnectFail ==
    /\ pc = "connect"
    /\ Caught("persist_failed")
    /\ UNCHANGED <<run, title, upstream, xml_text, chapters, inserted, conns,
                   table, fetched,
                   yielded, commits, delays, extraction,
                   textcalls, agencydb>>

\* insert_rows: one turn of the loop, cur.execute(INSERT_SQL, ...) succeeds:
\* the row joins the connection's open transaction.
InsertExecute(session, row) ==
    [session EXCEPT !.pending = Append(@, row)]

\* Mutant of InsertRow: the connection is in autocommit mode, each row is
\* committed as it is executed.
InsertRowAutocommit ==
    /\ pc = "insert"
    /\ inserted < Len(chapters)
    /\ table' = Append(table, Row(title, chapters[inserted + 1], run))
    /\ inserted' = inserted + 1
    /\ UNCHANGED <<pc, run, title, upstream, xml_text, chapters, conns,
                   outcome, fetched, yielded, commits, delays, extraction,
                   textcalls, agencydb>>

InsertRow ==
    /\ pc = "insert"
    /\ inserted < Len(chapters)
    /\ conns' = [conns EXCEPT ![conn] =
                    InsertExecute(@, Row(title, chapters[inserted + 1], run))]
    /\ inserted' = inserted + 1
    /\ UNCHANGED <<pc, run, title, upstream, xml_text, chapters, table,
                   outcome, fetched,
                   yielded, commits, delays, extraction,
                   textcalls, agencydb>>

\* insert_rows: cur.execute raises; nothing closes the connection.
InsertFail ==
    /\ pc = "insert"
    /\ inserted < Len(chapters)
    /\ Caught("persist_failed")
    /\ UNCHANGED <<run, title, upstream, xml_text, chapters, inserted, conns,
                   table, fetched,
                   yielded, commits, delays, extraction,
                   textcalls, agencydb>>

\* Mutant of CommitRows: an upsert on (title, chapter_identifier); the rows
\* an earlier run wrote for the same chapters are replaced.
CommitRowsUpsert(tbl, session) ==
    LET Replaced(row) ==
            \E k \in 1..Len(session.pending) :
                /\ session.pending[k].title = row.title
                /\ session.pending[k].chapter_identifier = row.chapter_identifier
    IN  SelectSeq(tbl, LAMBDA row : ~Replaced(row)) \o session.pending

\* conn.commit(): the open transaction's rows (plain INSERTs) are appended
\* to the table together.
CommitRows(tbl, session) == tbl \o session.pending

Commit ==
    /\ pc = "insert"
    /\ inserted = Len(chapters)
    /\ table' = CommitRows(table, conns[conn])
    /\ conns' = [conns EXCEPT ![conn].pending = <<>>]
    /\ commits' = [commits EXCEPT ![title] = @ + 1]
    /\ pc' = "close"
    /\ UNCHANGED <<run, title, upstream, xml_text, chapters, inserted,
                   outcome, fetched,
                   yielded, delays, extraction,
                   textcalls, agencydb>>

\* conn.commit() raises; nothing closes the connection.
CommitFail ==
    /\ pc = "insert"
    /\ inserted = Len(chapters)
    /\ Caught("persist_failed")
    /\ UNCHANGED <<run, title, upstream, xml_text, chapters, inserted, conns,
                   table, fetched,
                   yielded, commits, delays, extraction,
                   textcalls, agencydb>>

\* cur.close(); conn.close(); return inserted; and the print of main().
Close ==
    /\ pc = "close"
    /\ conns' = Without(conns, conn)
    /\ outcome' = [outcome EXCEPT ![title] = "ok"]
    /\ pc' = "sleep"
    /\ UNCHANGED <<run, title, upstream, xml_text, chapters, inserted, table,
                   fetched,
                   yielded, commits, delays, extraction,
                   textcalls, agencydb>>

\* Mutant of Sleep: the sleep is inside the try, behind insert_rows, so that
\* a title that failed is followed by no delay.
SleepAfterSuccessOnly ==
    /\ pc = "sleep"
    /\ IF title < LastTitle
       THEN /\ title' = title + 1
            /\ pc' = "fetch"
       ELSE /\ pc' = "finish"
            /\ UNCHANGED title
    /\ xml_text' = None
    /\ chapters' = <<>>
    /\ yielded' = <<>>
    /\ inserted' = 0
    /\ delays' = IF outcome[title] = "ok" THEN delays + 1 ELSE delays
    /\ UNCHANGED <<run, upstream, conns, table, outcome, fetched,
                   commits, extraction,
                   textcalls, agencydb>>

\* time.sleep(REQUEST_DELAY), and the loop's next turn or its end.  The
\* locals of the turn are dead from here on (each is assigned before it is
\* read again): they are cleared.
Sleep ==
    /\ pc = "sleep"
    /\ IF title < LastTitle
       THEN /\ title' = title + 1
            /\ pc' = "fetch"
       ELSE /\ pc' = "finish"
            /\ UNCHANGED title
    /\ xml_text' = None
    /\ chapters' = <<>>
    /\ yielded' = <<>>
    /\ inserted' = 0
    /\ delays' = delays + 1
    /\ UNCHANGED <<run, upstream, conns, table, outcome, fetched,
                   commits, extraction,
                   textcalls, agencydb>>

\* print("All titles processed.") and the process ends: the server drops
\* the connections it left open, rolling their transactions back.
Finish ==
    /\ pc = "finish"
    /\ pc' = "done"
    /\ conns' = <<>>
    /\ UNCHANGED <<run, title, upstream, xml_text, chapters, inserted, table,
                   outcome, fetched,
                   yielded, commits, delays, extraction,
                   textcalls, agencydb>>

\* The interpreter finalises a connection object nothing refers to any more
\* (one an exception left open): the connection closes, its transaction is
\* rolled back.  When this happens is up to the interpreter.
Finalize ==
    /\ \E c \in DOMAIN conns :
          /\ c # conn \/ pc \notin {"insert", "close"}
          /\ conns' = Without(conns, c)
    /\ UNCHANGED <<pc, run, title, upstream, xml_text, chapters, inserted,
                   table, outcome, fetched,
                   yielded, commits, delays, extraction,
                   textcalls, agencydb>>

\* The process is interrupted (KeyboardInterrupt is no Exception, or the
\* process is killed): main() ends where it is, the server drops its
\* connections.
Interrupt ==
    /\ pc \in {"fetch", "parse", "connect", "insert", "close", "sleep"}
    /\ pc' = "interrupted"
    /\ conns' = <<>>
    /\ UNCHANGED <<run, title, upstream, xml_text, chapters, inserted, table,
                   outcome, fetched,
                   yielded, commits, delays, extraction,
                   textcalls, agencydb>>

\* main() is run again (a rerun, by hand or scheduled).
StartRun ==
    /\ pc = "done"
    /\ run < MaxRuns
    /\ run' = run + 1
    /\ pc' = "setup"
    /\ title' = FirstTitle
    /\ outcome' = [t \in TITLES |-> "pending"]
    /\ fetched' = <<>>
    /\ delays' = 0
    /\ UNCHANGED <<upstream, xml_text, chapters, inserted, conns, table,
                   yielded, commits, extraction,
                   textcalls, agencydb>>

\* -------------------------------------------------------- specifications

DocEndToEnd ==
    Document("wrapped", <<[kind |-> KindGeneral, nested |-> FALSE],
                          [kind |-> KindReserved, nested |-> FALSE]>>)
DocRootIsTitle ==
    Document("rootIsTitle", <<[kind |-> KindGeneral, nested |-> FALSE]>>)

\* The documents of the runs with failures.
PipelineDocs == {DocEndToEnd, DocRootIsTitle, Malformed}

InitOver(snapshots, texts) ==
    /\ pc = "setup"
    /\ run = 1
    /\ title = FirstTitle
    /\ upstream \in snapshots
    /\ xml_text = None
    /\ chapters = <<>>
    /\ inserted = 0
    /\ conns = <<>>
    /\ table = <<>>
    /\ outcome = [t \in TITLES |-> "pending"]
    /\ fetched = <<>>
    /\ yielded = <<>>
    /\ commits = [t \in TITLES |-> 0]
    /\ delays = 0
    /\ extraction = [d \in {upstream[t] : t \in TITLES} |->
                        parse_chapters_for_wordcount(d)]
    /\ raw_text \in texts
    /\ normal_text = None
    /\ counted = None
    /\ agencies = <<>>
    /\ agencies_seq = 1
    /\ saved = <<>>
    /\ titles = <<>>

\* The runs of main(): no text function is called on its own.
InitWith(snapshots) == InitOver(snapshots, {<<>>})

Init == InitWith([TITLES -> PipelineDocs])

\* One run of main(), with every failure of the network, of the markup and
\* of the database, and interruption.
Next ==
    \/ Setup
    \/ SetupFail
    \/ FetchOk
    \/ FetchFail
    \/ Parse
    \/ Connect
    \/ ConnectFail
    \/ InsertRow
    \/ InsertFail
    \/ Commit
    \/ CommitFail
    \/ Close
    \/ Sleep
    \/ Finish
    \/ Finalize
    \/ Interrupt

Spec == Init /\ [][Next]_vars

\* The steps of main() alone, without interruption: a sequential program
\* whose every call returns or raises (the fetch has timeout=60), so a run
\* that can take a step takes one.
NextRun ==
    \/ Setup
    \/ SetupFail
    \/ FetchOk
    \/ FetchFail
    \/ Parse
    \/ Connect
    \/ ConnectFail
    \/ InsertRow
    \/ InsertFail
    \/ Commit
    \/ CommitFail
    \/ Close
    \/ Sleep
    \/ Finish
    \/ Finalize

LiveSpec == Init /\ [][NextRun]_vars /\ WF_vars(NextRun)

\* Reruns of main() over the same upstream snapshot (every title serving a
\* document of the same shape) and the same database; of the failures, the
\* fetch's.
DocOneChapter ==
    Document("deep", <<[kind |-> KindNoHead, nested |-> FALSE]>>)

RerunDocs == {DocEndToEnd, DocOneChapter, DocRootIsTitle}

InitRerun == InitWith({[t \in TITLES |-> d] : d \in RerunDocs})

NextRerun ==
    \/ Setup
    \/ FetchOk
    \/ FetchFail
    \/ Parse
    \/ Connect
    \/ InsertRow
    \/ Commit
    \/ Close
    \/ Sleep
    \/ Finish
    \/ StartRun

SpecRerun == InitRerun /\ [][NextRerun]_vars

\* Extraction over a family of documents: the first title's document is any
\* document of up to MaxDivisions chapter-like divisions, each of any kind
\* and, from the second on, nested in the one before it or not.
Placed(n) ==
    {cs \in [1..n -> [kind : ChapterKinds, nested : BOOLEAN]] :
        n >= 1 => ~cs[1].nested}

ExtractDocs ==
    {Malformed} \cup
    {Document(r, cs) :
        r \in RootKinds, cs \in UNION {Placed(n) : n \in 0..MaxDivisions}}

InitExtract ==
    InitWith({[t \in TITLES |-> IF t = FirstTitle THEN d ELSE DocRootIsTitle] :
                 d \in ExtractDocs})

NextExtract ==
    \/ Setup
    \/ FetchOk
    \/ Parse
    \/ Connect
    \/ InsertRow
    \/ Commit
    \/ Close
    \/ Sleep
    \/ Finish

SpecExtract == InitExtract /\ [][NextExtract]_vars

\* The text functions called on their own: clean_text on a text, then
\* word_count on what it returned.  The texts are every string of up to
\* MaxTextLen characters over TextAlphabet, and the example of the
\* specification.
MaxTextLen == 4

TextAlphabet == {"A", " ", "\n", "<", ">"}

S_Example == <<"A", " ", "B", " ", " ", "C", "\n", " ", "D">>

Texts ==
    {S_Example} \cup UNION {[1..n -> TextAlphabet] : n \in 0..MaxTextLen}

\* plain_text = clean_text(chapter_text)
CallCleanText ==
    /\ normal_text = None
    /\ normal_text' = Some(clean_text(raw_text))
    /\ UNCHANGED <<pipeline, raw_text, counted, agencydb>>

\* wc = word_count(plain_text)
CallWordCount ==
    /\ normal_text # None
    /\ counted = None
    /\ counted' = Some(word_count(Val(normal_text)))
    /\ UNCHANGED <<pipeline, raw_text, normal_text, agencydb>>

InitText == InitOver({[t \in TITLES |-> DocRootIsTitle]}, Texts)

NextText ==
    \/ CallCleanText
    \/ CallWordCount

SpecText == InitText /\ [][NextText]_vars

\* The agency ingestion (src/ingestion-script/local_agencies.py): save_agency
\* called on agency objects of the Admin API.  An agency object is a dict:
\* a function from the keys it has to their values, a value being None
\* (JSON null) or Some(string).
MaxSaves == 3

AgencyKeys == {"name", "slug", "short_name"}

AgencyValues == {None, Some(""), Some("epa"), Some("doe")}

AgencyObjects == UNION {[D -> AgencyValues] : D \in SUBSET AgencyKeys}

\* dict.get(key, default)
DictGet(d, key, default) == IF key \in DOMAIN d THEN d[key] ELSE default

\* slug = agency_data.get('slug', agency_data.get('short_name', ''))
SlugOf(agency_data) ==
    DictGet(agency_data, "slug", DictGet(agency_data, "short_name", Some("")))

\* name = agency_data.get('name', '')
NameOf(agency_data) == DictGet(agency_data, "name", Some(""))

\* The rows WHERE slug = %s selects: none when the parameter is NULL (the
\* comparison with NULL is not true), else those whose slug is that string.
WhereSlug(tbl, slug) ==
    {k \in 1..Len(tbl) : slug # None /\ tbl[k].slug # None /\ tbl[k].slug = slug}

\* The table after the statement of save_agency: the UPDATE of the rows
\* with the slug when the SELECT found one, else the INSERT of a new row
\* with the id the sequence gave.
SaveRow(tbl, id, name, slug) ==
    IF WhereSlug(tbl, slug) # {}
    THEN [k \in 1..Len(tbl) |->
            IF k \in WhereSlug(tbl, slug)
            THEN [tbl[k] EXCEPT !.name = name] ELSE tbl[k]]
    ELSE Append(tbl, [id |-> id, name |-> name, slug |-> slug])

\* save_agency(agency_data) returning (agency_id, 'updated' | 'inserted').
save_agency ==
    /\ Len(saved) < MaxSaves
    /\ \E agency_data \in AgencyObjects :
          LET name == NameOf(agency_data)
              slug == SlugOf(agency_data)
              existing == WhereSlug(agencies, slug)
          IN  /\ name # None
              /\ agencies' = SaveRow(agencies, agencies_seq, name, slug)
              /\ agencies_seq' =
                    IF existing # {} THEN agencies_seq ELSE agencies_seq + 1
              /\ saved' = Append(saved, slug)
    /\ UNCHANGED <<pipeline, textcalls, titles>>

\* save_agency(agency_data) raising: name is NOT NULL, so a null name makes
\* the UPDATE or the INSERT fail (the failed INSERT has taken a value of
\* the id sequence).
save_agency_raises ==
    /\ agencies_seq <= MaxSaves
    /\ \E agency_data \in AgencyObjects :
          /\ NameOf(agency_data) = None
          /\ agencies_seq' =
                IF WhereSlug(agencies, SlugOf(agency_data)) # {}
                THEN agencies_seq ELSE agencies_seq + 1
    /\ UNCHANGED <<pipeline, textcalls, agencies, saved, titles>>

InitAgencies == InitWith({[t \in TITLES |-> DocRootIsTitle]})

NextAgencies ==
    \/ save_agency
    \/ save_agency_raises

SpecAgencies == InitAgencies /\ [][NextAgencies]_vars

\* The titles ingestion (local_agencies.py): save_title called, after a run
\* of the chapter pipeline has ended, on a title object of the versioner API
\* whose number is one of TITLES; it reads the committed rows of
\* ecfr_chapter_wordcount.

\* Mutant of get_chapter_count: the distinct chapter identifiers are
\* counted.
get_chapter_count_distinct(tbl, title_number) ==
    Cardinality({row.chapter_identifier :
                    row \in {tbl[k] : k \in {i \in 1..Len(tbl) :
                                                tbl[i].title = title_number}}})

\* SELECT COUNT(*) FROM ecfr_chapter_wordcount WHERE title = %s
get_chapter_count(tbl, title_number) ==
    Len(SelectSeq(tbl, LAMBDA row : row.title = title_number))

\* save_title(title_data): the UPDATE of the title's row when the SELECT
\* found one, else the INSERT of a new row; either way the row holds the
\* chapter_count read and the database clock as updated_at (the SERIAL id
\* and the other columns are left out).
save_title ==
    /\ pc = "done"
    /\ \E title_number \in TITLES :
          LET chapter_count == get_chapter_count(table, title_number)
              existing == title_number \in DOMAIN titles
          IN  titles' =
                IF existing
                THEN [titles EXCEPT ![title_number] =
                        [chapter_count |-> chapter_count, updated_at |-> run]]
                ELSE (title_number :>
                        [chapter_count |-> chapter_count, updated_at |-> run])
                     @@ titles
    /\ UNCHANGED <<pipeline, textcalls, agencies, agencies_seq, saved>>

\* The sweeps in which every fetch succeeds, each followed or not by the
\* titles ingestion's save_title calls.
NextTitles ==
    \/ Setup
    \/ FetchOk
    \/ Parse
    \/ Connect
    \/ InsertRow
    \/ Commit
    \/ Close
    \/ Sleep
    \/ Finish
    \/ StartRun
    \/ save_title

SpecTitles == InitRerun /\ [][NextTitles]_vars

\* --------------------------------------------------------------- claims

\* The committed rows of title t written in run r, in order.
RowsOf(tbl, t, r) ==
    SelectSeq(tbl, LAMBDA row : row.title = t /\ row.downloaded_at = r)

\* The committed rows of title t, of every run.
RowsOfTitle(tbl, t) == SelectSeq(tbl, LAMBDA row : row.title = t)

\* The complete batch of title t in run r: one row per chapter extracted from
\* the document the upstream serves for t.
Batch(t, r) ==
    LET cs == extraction[upstream[t]].chapters
    IN  [k \in 1..Len(cs) |-> Row(t, cs[k], r)]

Range(seq) == {seq[i] : i \in 1..Len(seq)}

\* C1: when the fetch of title n fails, no row of n is persisted in the run,
\* the run is not aborted, and every other title m is still fetched by the
\* end of the sweep and, where it is persisted, gets its complete batch.
C1_FetchFailureSkipsOnlyThatTitle ==
    \A n \in TITLES :
        outcome[n] = "fetch_failed" =>
            /\ RowsOf(table, n, run) = <<>>
            /\ pc # "aborted"
            /\ \A m \in TITLES \ {n} :
                  /\ pc \in {"finish", "done"} => m \in Range(fetched)
                  /\ outcome[m] = "ok" =>
                        RowsOf(table, m, run) = Batch(m, run)

\* C1 witness: the sweep is over, the middle title's fetch failed, the titles
\* before and after it were persisted with their rows.
C1_Witness ==
    /\ pc = "done"
    /\ outcome[FirstTitle + 1] = "fetch_failed"
    /\ outcome[FirstTitle] = "ok" /\ outcome[FirstTitle + 2] = "ok"
    /\ RowsOf(table, FirstTitle, run) # <<>>
    /\ RowsOf(table, FirstTitle + 1, run) = <<>>
    /\ RowsOf(table, FirstTitle + 2, run) # <<>>

\* C2: once the loop has started the run reaches Done; the titles fetched so
\* far are always FirstTitle, FirstTitle + 1, ... each once and in ascending
\* order, all of them by the time the run is Done; and no failure of a title
\* ends the run.
C2_SweepAlwaysCompletes ==
    /\ [](fetched = [i \in 1..Len(fetched) |-> FirstTitle + i - 1])
    /\ [](pc = "done" => Len(fetched) = LastTitle - FirstTitle + 1)
    /\ [](pc = "aborted" => fetched = <<>>)
    /\ (pc = "fetch") ~> (pc = "done")

\* C2 witness: a run that is Done after a transport failure, a parse failure
\* and a persistence failure on three different titles.
C2_Witness ==
    /\ pc = "done"
    /\ \E a, b, c \in TITLES :
          /\ outcome[a] = "fetch_failed"
          /\ outcome[b] = "parse_failed"
          /\ outcome[c] = "persist_failed"

\* C3: in every state of a run, after failures and after an interruption too,
\* the committed rows of the run for a title are none or the complete batch.
C3_TitleBatchAtomic ==
    \A n \in TITLES :
        \/ RowsOf(table, n, run) = <<>>
        \/ RowsOf(table, n, run) = Batch(n, run)

\* C3 witness: an insert of a title failed after an earlier row of its batch
\* had been executed, the run was interrupted later, and none of that
\* title's rows is committed while another title's whole batch is.
C3_Witness ==
    /\ pc = "interrupted"
    /\ \E n, m \in TITLES :
          /\ outcome[n] = "persist_failed"
          /\ Len(Batch(n, run)) > 1
          /\ RowsOf(table, n, run) = <<>>
          /\ Len(RowsOf(table, m, run)) > 1

\* C4 (as claimed): when the orchestrator is at the fetch of a title, no
\* connection opened for an earlier title is open.
C4_NoConnectionLeftOpen ==
    pc = "fetch" => DOMAIN conns = {}

\* C5: the table only grows at its end (no committed row is ever changed or
\* removed), and for every title the table holds, from each run, nothing or
\* the title's complete batch, commits * c rows in all, where commits is the
\* number of runs that persisted the title and c its number of chapters.
C5_AppendOnlyReruns ==
    /\ [][/\ Len(table') >= Len(table)
          /\ SubSeq(table', 1, Len(table)) = table]_vars
    /\ [](\A t \in TITLES :
            /\ Len(RowsOfTitle(table, t)) =
                  commits[t] * Len(extraction[upstream[t]].chapters)
            /\ \A r \in 1..run :
                  RowsOf(table, t, r) \in {<<>>, Batch(t, r)})

\* C5 witness: after two runs a title of two chapters, persisted in both,
\* has four rows: its batch of the first run, then that of the second.
C5_Witness ==
    /\ pc = "done"
    /\ run = 2
    /\ \E t \in TITLES :
          /\ commits[t] = 2
          /\ Len(Batch(t, 1)) = 2
          /\ RowsOfTitle(table, t) = Batch(t, 1) \o Batch(t, 2)

\* The elements of the current title's document, once it is fetched.
Nodes == Val(xml_text).nodes

\* C6 (as claimed): no element the extractor yielded lies inside the subtree
\* of another element it yielded.
C6_NoNestedChapterYielded ==
    \A i, j \in 1..Len(yielded) :
        i # j => ~InSubtree(Nodes, yielded[i], yielded[j])

\* Whether the document has, below its title division, a chapter whose HEAD
\* child is present without text.
HasTextlessHead(doc) ==
    /\ doc.wellformed
    /\ FindTitle(doc.nodes) # 0
    /\ \E k \in 1..Len(ChapterElements(doc.nodes, FindTitle(doc.nodes))) :
          HeadingRaises(doc.nodes,
                        ChapterElements(doc.nodes, FindTitle(doc.nodes))[k])

\* C7 (as claimed): a title with a chapter whose HEAD has no text does not
\* fail in extraction, and once it is persisted that chapter's row has an
\* empty heading, character count 0 and is not reserved.
C7_TextlessHeadYieldsEmptyHeading ==
    \A t \in TITLES :
        HasTextlessHead(upstream[t]) =>
            /\ outcome[t] # "parse_failed"
            /\ outcome[t] = "ok" =>
                  LET els == ChapterElements(upstream[t].nodes,
                                             FindTitle(upstream[t].nodes))
                      rows == RowsOf(table, t, run)
                  IN  /\ Len(rows) = Len(els)
                      /\ \A k \in 1..Len(els) :
                            HeadingRaises(upstream[t].nodes, els[k]) =>
                                /\ rows[k].chapter_heading = <<>>
                                /\ rows[k].character_count = 0
                                /\ rows[k].is_reserved = FALSE

\* C8: every triple yielded for a chapter element without a HEAD child has
\* the empty heading, and the row committed for it has the empty heading,
\* character count 0 and is not reserved.
C8_NoHeadEmptyHeading ==
    /\ pc \in {"connect", "insert", "close"} =>
          /\ Len(chapters) = Len(yielded)
          /\ \A k \in 1..Len(yielded) :
                FindHead(Nodes, yielded[k]) = 0 =>
                    chapters[k].chapter_heading = <<>>
    /\ pc = "close" =>
          LET rows == RowsOf(table, title, run)
          IN  /\ Len(rows) = Len(yielded)
              /\ \A k \in 1..Len(yielded) :
                    FindHead(Nodes, yielded[k]) = 0 =>
                        /\ rows[k].chapter_heading = <<>>
                        /\ rows[k].character_count = 0
                        /\ rows[k].is_reserved = FALSE

\* C8 witness: the batch of a title is committed and holds the row of a
\* chapter without a HEAD child that has an N attribute and body text.
C8_Witness ==
    /\ pc = "close"
    /\ \E k \in 1..Len(yielded) :
          /\ FindHead(Nodes, yielded[k]) = 0
          /\ Len(RowsOf(table, title, run)) = Len(yielded)
          /\ RowsOf(table, title, run)[k].chapter_identifier # <<>>
          /\ RowsOf(table, title, run)[k].word_count > 0
          /\ RowsOf(table, title, run)[k].chapter_heading = <<>>

\* The record of the scenario for a chapter, as the table holds it.
Record(label, heading, wc, cc, reserved) ==
    [title |-> FirstTitle, chapter_identifier |-> label,
     chapter_heading |-> heading, word_count |-> wc, character_count |-> cc,
     is_reserved |-> reserved, downloaded_at |-> 1]

\* The scenario is over: the two-chapter document was served for the first
\* title and the title is persisted.
ScenarioDone ==
    upstream[FirstTitle] = DocEndToEnd /\ outcome[FirstTitle] = "ok"

\* C9 (amended): the scenario's document gives exactly two records, in this
\* order: ("I", "Chapter I - General", word_count 7, character_count 19, not
\* reserved) and ("II", "Chapter II - [Reserved]", word_count 4,
\* character_count 23, reserved).
C9_EndToEndScenario ==
    ScenarioDone =>
        RowsOfTitle(table, FirstTitle) =
            <<Record(S_RomanI, S_HeadGeneral, 7, 19, FALSE),
              Record(S_RomanII, S_HeadReserved, 4, 23, TRUE)>>

\* C9 witness: the scenario is over and the table holds two rows of the title,
\* the second one reserved.
C9_Witness ==
    /\ ScenarioDone
    /\ Len(RowsOfTitle(table, FirstTitle)) = 2
    /\ RowsOfTitle(table, FirstTitle)[2].is_reserved

\* C9 (as claimed): the records have character_count 20 for chapter I and
\* word_count 3 for chapter II.
C9_EndToEndScenarioAsClaimed ==
    ScenarioDone =>
        RowsOfTitle(table, FirstTitle) =
            <<Record(S_RomanI, S_HeadGeneral, 7, 20, FALSE),
              Record(S_RomanII, S_HeadReserved, 3, 23, TRUE)>>

\* Whether element e carries text of the document (a text or a tail).
HasText(nodes, e) == Truthy(nodes[e].text) \/ Truthy(nodes[e].tail)

\* C10 (as claimed): the yielded elements are the matching chapter elements
\* of the title, one triple each, in the order they open in the document,
\* and no element carrying text lies in the subtrees of two of them.
C10_DocumentOrderCountedOnce ==
    pc \in {"connect", "insert", "close"} =>
        /\ Len(chapters) = Len(yielded)
        /\ \A i, j \in 1..Len(yielded) : i < j => yielded[i] < yielded[j]
        /\ Range(yielded) =
              {e \in 1..Len(Nodes) :
                  /\ FindTitle(Nodes) # 0
                  /\ InSubtree(Nodes, FindTitle(Nodes), e)
                  /\ IsChapter(Nodes[e])}
        /\ \A i, j \in 1..Len(yielded) :
              i # j =>
                  \A e \in 1..Len(Nodes) :
                      HasText(Nodes, e) =>
                          ~(/\ InSubtree(Nodes, yielded[i], e)
                            /\ InSubtree(Nodes, yielded[j], e))

\* The text segments of the subtree of element e, in document order: its
\* own text, then for each child the child's segments and the child's tail.
\* ChildSegments is the part of the children cs from the k-th on.
RECURSIVE Segments(_, _)
RECURSIVE ChildSegments(_, _, _)
Segments(nodes, e) ==
    (IF Truthy(nodes[e].text) THEN <<Val(nodes[e].text)>> ELSE <<>>)
    \o ChildSegments(nodes, Children(nodes, e), 1)

ChildSegments(nodes, cs, k) ==
    IF k > Len(cs) THEN <<>>
    ELSE Segments(nodes, cs[k])
         \o (IF Truthy(nodes[cs[k]].tail)
             THEN <<Val(nodes[cs[k]].tail)>> ELSE <<>>)
         \o ChildSegments(nodes, cs, k + 1)

\* The segments one after the other, a space behind each.
RECURSIVE Joined(_, _)
Joined(segs, k) ==
    IF k > Len(segs) THEN <<>> ELSE segs[k] \o <<" ">> \o Joined(segs, k + 1)

\* C11 (as claimed): for every chapter yielded, the text extract_text and
\* clean_text produce is the concatenation of the subtree's text segments in
\* document order after whitespace normalisation, nothing dropped, and the
\* chapter's word count is the number of tokens of that text.
C11_NormalizerRoundTrip ==
    pc \in {"connect", "insert", "close"} =>
        \A k \in 1..Len(yielded) :
            LET whole == Strip(SubSpaces(Joined(Segments(Nodes, yielded[k]), 1)))
            IN  /\ clean_text(extract_text(Nodes, yielded[k])) = whole
                /\ chapters[k].wc = word_count(whole)

\* Whether the document parses and has no DIV1 TYPE="TITLE" element below
\* its root.
NoTitleDivision(doc) == doc.wellformed /\ FindTitle(doc.nodes) = 0

\* C12: a title whose document has no title division never fails in
\* extraction and never gets a row; its extraction gives no chapter; and
\* once the loop has moved past it, it is recorded as processed.
C12_NoTitleDivisionIsNotAnError ==
    \A t \in TITLES :
        NoTitleDivision(upstream[t]) =>
            /\ outcome[t] \in {"pending", "ok"}
            /\ RowsOfTitle(table, t) = <<>>
            /\ (title = t /\ pc \in {"connect", "insert", "close"}) =>
                  chapters = <<>>
            /\ (title > t \/ pc \in {"finish", "done"}) => outcome[t] = "ok"

\* C12 witness: the run is done; the first title's document had CHAPTER
\* divisions but no title division, it is processed with no row, and the
\* titles after it were fetched.
C12_Witness ==
    /\ pc = "done"
    /\ NoTitleDivision(upstream[FirstTitle])
    /\ \E e \in 1..Len(upstream[FirstTitle].nodes) :
          IsChapter(upstream[FirstTitle].nodes[e])
    /\ outcome[FirstTitle] = "ok"
    /\ RowsOfTitle(table, FirstTitle) = <<>>
    /\ Len(fetched) = LastTitle - FirstTitle + 1

\* Whether the characters [Reserved] stand in h one after the other, in
\* this case, from some position on.
HasReservedMarker(h) ==
    \E i \in 1..Len(h) :
        \A j \in 1..Len(S_Reserved) :
            i + j - 1 <= Len(h) /\ h[i + j - 1] = S_Reserved[j]

\* C13: every row of the table is reserved exactly when its heading holds
\* the marker [Reserved], case-sensitively, anywhere; a row with the empty
\* heading is not reserved.
C13_ReservedIffMarker ==
    \A k \in 1..Len(table) :
        /\ table[k].is_reserved = HasReservedMarker(table[k].chapter_heading)
        /\ table[k].chapter_heading = <<>> => table[k].is_reserved = FALSE

\* C13 witness: the table holds a reserved row whose marker is not at the
\* start of the heading, and a row whose heading is "[reserved]" in lower
\* case, not reserved.
C13_Witness ==
    \E a, b \in 1..Len(table) :
        /\ table[a].is_reserved
        /\ table[a].chapter_heading = S_HeadReserved
        /\ table[b].chapter_heading = Strip(S_HeadPadded)
        /\ ~table[b].is_reserved

\* Where the tokens of a text start: at a character that is not white space
\* and that is the first one or follows white space.
TokenStarts(text) ==
    {i \in 1..Len(text) :
        /\ text[i] \notin Whitespace
        /\ i = 1 \/ text[i - 1] \in Whitespace}

\* C14: the word count of a normalized text is the number of its tokens,
\* never negative and 0 for the empty text; the text "A B  C\n D" is
\* normalized to "A B C D" and its word count is 4.
C14_WordCountCountsTokens ==
    /\ counted # None =>
          /\ Val(counted) = Cardinality(TokenStarts(Val(normal_text)))
          /\ Val(counted) >= 0
          /\ Val(normal_text) = <<>> => Val(counted) = 0
    /\ (raw_text = S_Example /\ normal_text # None) =>
          Val(normal_text) = <<"A", " ", "B", " ", "C", " ", "D">>
    /\ (raw_text = S_Example /\ counted # None) => Val(counted) = 4

\* C14 witness: the example has been normalized to a text of 7 characters
\* and counted as 4 words.
C14_Witness ==
    /\ raw_text = S_Example
    /\ normal_text # None /\ Len(Val(normal_text)) = 7
    /\ counted = Some(4)

\* C15: the character count of every row is the length of its heading, so
\* that rows with the same heading have the same character count; and the
\* heading of the row committed for a chapter is the trimmed text of its
\* HEAD child, the empty string without one.
C15_CharacterCountIsHeadingLength ==
    /\ \A k \in 1..Len(table) :
          table[k].character_count = Len(table[k].chapter_heading)
    /\ \A a, b \in 1..Len(table) :
          table[a].chapter_heading = table[b].chapter_heading =>
              table[a].character_count = table[b].character_count
    /\ pc = "close" =>
          \A k \in 1..Len(yielded) :
              LET row == RowsOf(table, title, run)[k]
                  head == FindHead(Nodes, yielded[k])
              IN  row.character_count =
                      IF head = 0 THEN 0
                      ELSE Len(Strip(Val(Nodes[head].text)))

\* C15 witness: two rows with the heading "Chapter I - General", of 19
\* characters, whose chapters differ in their text (7 words, and more).
C15_Witness ==
    \E a, b \in 1..Len(table) :
        /\ table[a].chapter_heading = S_HeadGeneral
        /\ table[b].chapter_heading = S_HeadGeneral
        /\ table[a].word_count = 7
        /\ table[b].word_count > 7
        /\ table[a].character_count = 19
        /\ table[b].character_count = 19

\* The chapter elements of a document: the elements in the subtree of its
\* title division that pass the test of the loop.
MatchedElements(nodes) ==
    {e \in 1..Len(nodes) :
        /\ FindTitle(nodes) # 0
        /\ InSubtree(nodes, FindTitle(nodes), e)
        /\ IsChapter(nodes[e])}

\* C16: the extraction of a title gives as many triples as the document has
\* chapter elements, and a persisted title has as many rows, whether or not
\* the elements' N attributes are distinct.
C16_NoDeduplicationByIdentifier ==
    /\ pc \in {"connect", "insert", "close"} =>
          Len(chapters) = Cardinality(MatchedElements(Nodes))
    /\ \A t \in TITLES :
          outcome[t] = "ok" =>
              Len(RowsOfTitle(table, t)) =
                  Cardinality(MatchedElements(upstream[t].nodes))

\* C16 witness: a persisted title whose document has two sibling chapter
\* elements with the same N attribute, and two rows with that identifier.
C16_Witness ==
    \E t \in TITLES :
        /\ outcome[t] = "ok"
        /\ \E a, b \in MatchedElements(upstream[t].nodes) :
              /\ a # b
              /\ upstream[t].nodes[a].parent = upstream[t].nodes[b].parent
              /\ AttribGet(upstream[t].nodes[a].attrib, "N", <<>>) =
                    AttribGet(upstream[t].nodes[b].attrib, "N", <<>>)
        /\ Len(RowsOfTitle(table, t)) = 2
        /\ RowsOfTitle(table, t)[1].chapter_identifier =
              RowsOfTitle(table, t)[2].chapter_identifier

\* C17: when a title is about to be fetched, the run has made one delay for
\* each title fetched before it, and while a title is being processed one
\* delay for each title before it: between the fetches of two successive
\* titles lies a delay, made after the first title's processing has ended,
\* however it ended; and the loop variable only moves in a delay step.
C17_DelayBetweenFetches ==
    /\ [](pc = "fetch" => delays = Len(fetched))
    /\ [](pc \in {"parse", "connect", "insert", "close", "sleep"} =>
             delays = Len(fetched) - 1)
    /\ [][title' # title => pc = "sleep" /\ delays' = delays + 1]_vars
    /\ [][Len(fetched') > Len(fetched) => pc = "fetch"]_vars

\* C17 witness: the last title is about to be fetched after two delays; of
\* the two titles before it one failed and one was persisted.
C17_Witness ==
    /\ pc = "fetch"
    /\ title = LastTitle
    /\ delays = LastTitle - FirstTitle
    /\ \E a, b \in TITLES :
          /\ outcome[a] \in {"fetch_failed", "parse_failed", "persist_failed"}
          /\ outcome[b] = "ok"

\* C18 (as claimed): the agencies table holds at most one row per slug and
\* as many rows as distinct slugs were saved; and a save never removes a
\* row or changes a row's id or slug, and adds no row when the slug saved is
\* among the slugs saved before.
C18_AgencyUpsertBySlug ==
    /\ [](\A a, b \in 1..Len(agencies) :
            a # b => agencies[a].slug # agencies[b].slug)
    /\ [](Len(agencies) = Cardinality(Range(saved)))
    /\ [][/\ Len(agencies') >= Len(agencies)
          /\ \A k \in 1..Len(agencies) :
                /\ agencies'[k].id = agencies[k].id
                /\ agencies'[k].slug = agencies[k].slug
          /\ (Len(saved') > Len(saved) /\ saved'[Len(saved')] \in Range(saved))
                => Len(agencies') = Len(agencies)]_vars

\* C19: a connection is opened for a title only when the whole chapter list
\* of its document has been extracted without error; and for a title whose
\* extraction fails no connection is open, nothing is inserted or committed,
\* and it has no row.
C19_ExtractionBeforePersistence ==
    /\ [][DOMAIN conns' \ DOMAIN conns # {} =>
            /\ pc = "connect"
            /\ DOMAIN conns' \ DOMAIN conns = {conn}
            /\ ~extraction[upstream[title]].raised
            /\ chapters = extraction[upstream[title]].chapters]_vars
    /\ [](\A t \in TITLES :
            extraction[upstream[t]].raised =>
                /\ <<run, t>> \notin DOMAIN conns
                /\ commits[t] = 0
                /\ RowsOfTitle(table, t) = <<>>
                /\ title = t => inserted = 0 /\ chapters = <<>>)

\* C19 witness: the extraction of the first title failed on its second
\* chapter (a HEAD without text) after a valid first one; the run is done
\* and the title has no row.
C19_Witness ==
    /\ pc = "done"
    /\ outcome[FirstTitle] = "parse_failed"
    /\ LET nodes == upstream[FirstTitle].nodes
           els == ChapterElements(nodes, FindTitle(nodes))
       IN  /\ upstream[FirstTitle].wellformed
           /\ FindTitle(nodes) # 0
           /\ Len(els) = 2
           /\ ~HeadingRaises(nodes, els[1])
           /\ HeadingRaises(nodes, els[2])
    /\ RowsOfTitle(table, FirstTitle) = <<>>

\* Whether the document's root element is the DIV1 with TYPE="TITLE" and no
\* element below it is one.
RootIsTheTitle(doc) ==
    /\ doc.wellformed
    /\ doc.nodes[1].tag = S_DIV1
    /\ AttribGet(doc.nodes[1].attrib, "TYPE", None) = S_TITLE
    /\ \A i \in 2..Len(doc.nodes) :
          ~(/\ doc.nodes[i].tag = S_DIV1
            /\ AttribGet(doc.nodes[i].attrib, "TYPE", None) = S_TITLE)

\* C20: for a document whose root is itself the title division the
\* extraction finds no title element, raises nothing and yields no chapter,
\* whatever CHAPTER divisions the root contains, and the title gets no row.
C20_TitleSearchedBelowRoot ==
    \A t \in TITLES :
        RootIsTheTitle(upstream[t]) =>
            /\ extraction[upstream[t]] =
                  [raised |-> FALSE, elements |-> <<>>, chapters |-> <<>>]
            /\ (title = t /\ pc \in {"connect", "insert", "close", "sleep"}) =>
                  yielded = <<>> /\ chapters = <<>> /\ inserted = 0
            /\ RowsOfTitle(table, t) = <<>>

\* C20 witness: the first title's root is the title division and contains
\* two CHAPTER divisions with headings; its (empty) batch is committed and
\* the table has no row of it.
C20_Witness ==
    /\ title = FirstTitle
    /\ pc = "close"
    /\ RootIsTheTitle(upstream[FirstTitle])
    /\ Cardinality({e \in 1..Len(upstream[FirstTitle].nodes) :
                       /\ IsChapter(upstream[FirstTitle].nodes[e])
                       /\ FindHead(upstream[FirstTitle].nodes, e) # 0
                       /\ upstream[FirstTitle].nodes[e].parent = 1}) = 2
    /\ commits[FirstTitle] = 1
    /\ RowsOfTitle(table, FirstTitle) = <<>>

\* C21: when a run of the chapter pipeline has ended, the chapter_count of
\* every titles row saved since is the number of rows the chapter table
\* holds for that title number, which is commits * c, where commits is the
\* number of runs that persisted the title and c its number of chapters.
C21_ChapterCountCountsRows ==
    pc = "done" =>
        \A n \in DOMAIN titles :
            titles[n].updated_at = run =>
                /\ titles[n].chapter_count = Len(RowsOfTitle(table, n))
                /\ titles[n].chapter_count =
                      commits[n] * Len(extraction[upstream[n]].chapters)

\* C21 witness: after two runs that both persisted a title of two chapters
\* with distinct identifiers, save_title has stored chapter_count 4 for it.
C21_Witness ==
    /\ pc = "done"
    /\ run = 2
    /\ \E n \in DOMAIN titles :
          /\ titles[n].updated_at = 2
          /\ commits[n] = 2
          /\ Len(extraction[upstream[n]].chapters) = 2
          /\ Cardinality({row.chapter_identifier :
                             row \in Range(RowsOfTitle(table, n))}) = 2
          /\ titles[n].chapter_count = 4

====
